---- MODULE Spec2Model ----
(***************************************************************************)
(* Model of the quiz controller of src/src/app/page.tsx (component Home):  *)
(* the level pool, the level/step state machine, the answer normaliser,    *)
(* the geography question and the deferred advance scheduled by            *)
(* setTimeout.                                                             *)
(*                                                                         *)
(* Strings are sequences of characters; a character is a one-token string. *)
(* Characters outside ASCII are written as tokens:                         *)
(*   "e_acute" = U+00E9, "E_acute" = U+00C9, "comb_acute" = U+0301,        *)
(*   "cyr_ya"  = U+044F.                                                   *)
(***************************************************************************)
EXTENDS Integers, Sequences, FiniteSets, TLC

VARIABLES
    dataset,         \* what buildCountries() returns (fixed for one page load)
    countries,       \* useState<Country[]>(buildPool)
    levelIndex,      \* useState(0)
    step,            \* useState("country")
    answer,          \* useState("")
    feedback,        \* useState("")
    attempts,        \* useState(0)
    correctCount,    \* useState(0)
    streak,          \* useState(0)
    selectedOption,  \* useState<string | null>(null)
    geoQuestion,     \* useMemo(..., [currentCountry])
    timers,          \* pending setTimeout callbacks, in firing order
    last             \* history: the last operation and the state it ran in

vars == <<dataset, countries, levelIndex, step, answer, feedback, attempts,
          correctCount, streak, selectedOption, geoQuestion, timers, last>>

----------------------------------------------------------------------------
(* Bounds of the model *)

MaxDataset == 2      \* largest dataset size explored
MaxAttempts == 6     \* submissions that count as attempts, per play-through
MaxTimers == 2       \* deferred advances pending at the same time

----------------------------------------------------------------------------
(* Constants of the program *)

TOTAL_LEVELS == 100

\* JavaScript's undefined (no current country), null (no question) and the
\* null of selectedOption (no option: options are never empty strings)
Undefined == [undefined |-> TRUE]
Null == [null |-> TRUE]
NoOption == <<>>
NoStep == "none"

FeedbackType == "Type your answer to keep moving."
FeedbackOnPoint == "On point! Keep it going."
FeedbackLevelComplete == "Level complete! Get ready for the next spotlight."
FeedbackNotQuite == "Not quite. Use the hints and try again."
FeedbackClose == "Close! Think of the capital city."
FeedbackGeoMissed == "Geography check missed. Try another option."

Min(a, b) == IF a < b THEN a ELSE b

----------------------------------------------------------------------------
(* normalizeAnswer *)

LowerLetters ==
    <<"a","b","c","d","e","f","g","h","i","j","k","l","m",
      "n","o","p","q","r","s","t","u","v","w","x","y","z">>

UpperLetters ==
    <<"A","B","C","D","E","F","G","H","I","J","K","L","M",
      "N","O","P","Q","R","S","T","U","V","W","X","Y","Z">>

Digits == {"0","1","2","3","4","5","6","7","8","9"}

\* String.prototype.normalize("NFD") on one character: canonical decomposition
NFDChar(c) ==
    IF c = "e_acute" THEN <<"e", "comb_acute">>
    ELSE IF c = "E_acute" THEN <<"E", "comb_acute">>
    ELSE <<c>>

\* the character class [U+0300-U+036F]
CombiningMarks == {"comb_acute"}

\* String.prototype.toLowerCase on one character
ToLowerChar(c) ==
    IF \E i \in 1..Len(UpperLetters) : UpperLetters[i] = c
    THEN LowerLetters[CHOOSE i \in 1..Len(UpperLetters) : UpperLetters[i] = c]
    ELSE c

\* the character class [a-z0-9]
IsAlnumLower(c) ==
    \/ \E i \in 1..Len(LowerLetters) : LowerLetters[i] = c
    \/ c \in Digits

RECURSIVE NFD(_)
NFD(s) == IF s = <<>> THEN <<>> ELSE NFDChar(Head(s)) \o NFD(Tail(s))

RECURSIVE StripMarks(_)
StripMarks(s) ==
    IF s = <<>> THEN <<>>
    ELSE IF Head(s) \in CombiningMarks THEN StripMarks(Tail(s))
    ELSE <<Head(s)>> \o StripMarks(Tail(s))

RECURSIVE ToLowerCase(_)
ToLowerCase(s) ==
    IF s = <<>> THEN <<>> ELSE <<ToLowerChar(Head(s))>> \o ToLowerCase(Tail(s))

RECURSIVE StripNonAlnum(_)
StripNonAlnum(s) ==
    IF s = <<>> THEN <<>>
    ELSE IF IsAlnumLower(Head(s)) THEN <<Head(s)>> \o StripNonAlnum(Tail(s))
    ELSE StripNonAlnum(Tail(s))

\* normalizeAnswer without toLowerCase
normalizeAnswer_NoLower(value) == StripNonAlnum(StripMarks(NFD(value)))

\* normalizeAnswer without its last replace: punctuation and other characters
\* outside [a-z0-9] stay
normalizeAnswer_KeepPunct(value) == ToLowerCase(StripMarks(NFD(value)))

normalizeAnswer(value) == StripNonAlnum(ToLowerCase(StripMarks(NFD(value))))

----------------------------------------------------------------------------
(* The dataset *)

\* CONTINENT_NAMES[code] ?? "Unknown"
CONTINENT_NAMES(code) ==
    IF code = "af" THEN <<"A","f","r","i","c","a">>
    ELSE IF code = "as" THEN <<"A","s","i","a">>
    ELSE IF code = "eu" THEN <<"E","u","r","o","p","e">>
    ELSE IF code = "na" THEN <<"N","o","r","t","h"," ","A","m","e","r","i","c","a">>
    ELSE IF code = "sa" THEN <<"S","o","u","t","h"," ","A","m","e","r","i","c","a">>
    ELSE IF code = "oc" THEN <<"O","c","e","a","n","i","a">>
    ELSE IF code = "an" THEN <<"A","n","t","a","r","c","t","i","c","a">>
    ELSE <<"U","n","k","n","o","w","n">>

\* String.prototype.toUpperCase on one character
ToUpperChar(c) ==
    IF \E i \in 1..Len(LowerLetters) : LowerLetters[i] = c
    THEN UpperLetters[CHOOSE i \in 1..Len(LowerLetters) : LowerLetters[i] = c]
    ELSE IF c = "e_acute" THEN "E_acute"
    ELSE c

RECURSIVE ToUpperCase(_)
ToUpperCase(s) ==
    IF s = <<>> THEN <<>> ELSE <<ToUpperChar(Head(s))>> \o ToUpperCase(Tail(s))

\* String.prototype.split(" "): the parts between the spaces
RECURSIVE SplitSpaces(_)
SplitSpaces(s) ==
    IF \A i \in 1..Len(s) : s[i] # " " THEN <<s>>
    ELSE LET k == CHOOSE i \in 1..Len(s) :
                      s[i] = " " /\ \A j \in 1..(i - 1) : s[j] # " "
         IN  <<SubSeq(s, 1, k - 1)>> \o SplitSpaces(SubSeq(s, k + 1, Len(s)))

\* Array.prototype.join(" ")
RECURSIVE JoinSpaces(_)
JoinSpaces(parts) ==
    IF Len(parts) = 0 THEN <<>>
    ELSE IF Len(parts) = 1 THEN parts[1]
    ELSE parts[1] \o <<" ">> \o JoinSpaces(Tail(parts))

titleizePart(part) ==
    IF Len(part) > 3
    THEN <<ToUpperChar(part[1])>> \o SubSeq(part, 2, Len(part))
    ELSE ToUpperCase(part)

titleize(value) ==
    LET parts == SplitSpaces(value) IN
    JoinSpaces([i \in 1..Len(parts) |-> titleizePart(parts[i])])

\* String(parseInt(text, 10)) for a text of decimal digits: leading zeros go
RECURSIVE ParseIntString(_)
ParseIntString(text) ==
    IF text = <<>> \/ Head(text) \notin Digits THEN <<"N","a","N">>
    ELSE IF Head(text) = "0" /\ Len(text) > 1 /\ text[2] \in Digits
    THEN ParseIntString(Tail(text))
    ELSE text

\* !detail?.iso?.numeric
LacksIsoNumeric(detail) ==
    \/ detail.iso = Undefined
    \/ detail.iso.numeric = <<>>

\* the record buildCountries makes of one entry, lines 85-94
CountryOf(detail) ==
    [id |-> ParseIntString(detail.iso.numeric),
     name |-> titleize(detail.country),
     capital |-> titleize(detail.capital),
     continent |-> CONTINENT_NAMES(detail.continent),
     continentCode |-> detail.continent,
     isLandlocked |-> detail.is_landlocked,
     driveDirection |-> IF detail.drive_direction = "left" THEN "left" ELSE "right",
     famousFor |-> detail.famous_for]

\* buildCountries applied to the list getAllCountryDetails returns: entries
\* without an ISO numeric code are dropped, every other entry gives a record.
\* (detailByIso, lines 73-80, is filled and never read.)
RECURSIVE buildCountries(_)
buildCountries(detailList) ==
    IF detailList = <<>> THEN <<>>
    ELSE IF LacksIsoNumeric(Head(detailList)) THEN buildCountries(Tail(detailList))
    ELSE <<CountryOf(Head(detailList))>> \o buildCountries(Tail(detailList))

\* entries of the library, as getAllCountryDetails returns them
Details ==
    << [country |-> <<"t","o","g","o">>,
        capital |-> <<"l","o","m","e_acute">>,
        continent |-> "af", iso |-> [numeric |-> <<"7","6","8">>],
        famous_for |-> "palm-lined beaches", is_landlocked |-> FALSE, drive_direction |-> "right"],
       [country |-> <<"n","e","p","a","l">>,
        capital |-> <<"k","a","t","h","m","a","n","d","u">>,
        continent |-> "as", iso |-> [numeric |-> <<"5","2","4">>],
        famous_for |-> "mount everest", is_landlocked |-> TRUE, drive_direction |-> "left"],
       [country |-> <<"p","e","r","u">>,
        capital |-> <<"l","i","m","a">>,
        continent |-> "sa", iso |-> [numeric |-> <<"6","0","4">>],
        famous_for |-> "machu picchu", is_landlocked |-> FALSE, drive_direction |-> "right"],
       [country |-> <<"m","a","l","t","a">>,
        capital |-> <<"v","a","l","l","e","t","t","a">>,
        continent |-> "eu", iso |-> [numeric |-> <<"4","7","0">>],
        famous_for |-> "historic sites", is_landlocked |-> FALSE, drive_direction |-> "left"] >>

\* the records buildCountries returns for them
Catalogue == buildCountries(Details)

\* the datasets explored: the first n records of the catalogue
Datasets == { SubSeq(Catalogue, 1, n) : n \in 0..Min(MaxDataset, Len(Catalogue)) }

\* what the user can type into the text field
TypedAnswers ==
    { <<>>,                              \* nothing
      <<" ">>,                           \* white space only
      <<"?">>,                           \* punctuation only
      <<"cyr_ya">>,                      \* non-Latin text only
      <<"t","o"," ","g","o">>,           \* "to go"
      <<"L","O","M","E_acute">>,         \* "LOME" with an acute accent
      <<"n","e","p","a","l">>,
      <<"K","a","t","h","-","m","a","n","d","u">> }

\* Array.prototype.slice(0, n)
Slice(s, n) == SubSeq(s, 1, Min(n, Len(s)))

\* the swap of line 66 written as a plain assignment: result[i] = result[j]
Swap_Overwrite(s, i, j) == [s EXCEPT ![i] = s[j]]

Swap(s, i, j) == [s EXCEPT ![i] = s[j], ![j] = s[i]]

\* shuffle: the loop of lines 64-67 from index i down (1-based), every
\* outcome of Math.random
RECURSIVE ShuffleFrom(_, _)
ShuffleFrom(result, i) ==
    IF i <= 1 THEN {result}
    ELSE UNION { ShuffleFrom(Swap(result, i, j), i - 1) : j \in 1..i }

shuffle(array) == ShuffleFrom(array, Len(array))

buildPool(data) == { Slice(s, TOTAL_LEVELS) : s \in shuffle(data) }

YesNo == << <<"Y","e","s">>, <<"N","o">> >>
LeftRight == << <<"L","e","f","t">>, <<"R","i","g","h","t">> >>

\* buildGeoQuestion: every question Math.random can select for the country
buildGeoQuestion(country) ==
    { [prompt |-> <<"landlocked", country.name>>,
       answer |-> IF country.isLandlocked THEN YesNo[1] ELSE YesNo[2],
       options |-> o] : o \in shuffle(YesNo) }
    \cup
    { [prompt |-> <<"driving side", country.name>>,
       answer |-> IF country.driveDirection = "left" THEN LeftRight[1] ELSE LeftRight[2],
       options |-> o] : o \in shuffle(LeftRight) }

----------------------------------------------------------------------------
(* Values derived on every render, lines 130-138 *)

TotalLevelsOf(cs) == Min(TOTAL_LEVELS, Len(cs))
\* currentCountry with the index clamped to the last level
CurrentCountryOf_Clamped(cs, li) ==
    IF Len(cs) > 0 THEN cs[Min(li, Len(cs) - 1) + 1] ELSE Undefined

CurrentCountryOf(cs, li) == IF li < Len(cs) THEN cs[li + 1] ELSE Undefined
FinishedOf(cs, li) == TotalLevelsOf(cs) > 0 /\ li >= TotalLevelsOf(cs)

totalLevels == TotalLevelsOf(countries)
currentCountry == CurrentCountryOf(countries, levelIndex)
finished == FinishedOf(countries, levelIndex)

\* useMemo(() => currentCountry ? buildGeoQuestion(currentCountry) : null):
\* the values the memo can take when currentCountry is a new object
GeoQuestionsFor(country) ==
    IF country = Undefined THEN {Null} ELSE buildGeoQuestion(country)

----------------------------------------------------------------------------
(* History *)

Snap == [countries |-> countries, levelIndex |-> levelIndex, step |-> step,
         answer |-> answer, feedback |-> feedback, attempts |-> attempts,
         correctCount |-> correctCount, streak |-> streak,
         selectedOption |-> selectedOption, geoQuestion |-> geoQuestion,
         timers |-> timers]

\* the prompts answered correctly since the last restart, as <<level, step>>,
\* after the operation op
AnsweredAfter(op) ==
    IF op = "restart" THEN {}
    ELSE IF op \in {"submitText", "submitChoice"} /\ correctCount' > correctCount
    THEN last.answered \cup {<<levelIndex, step>>}
    ELSE last.answered

\* the history a handler leaves: its name, the state it ran in and the
\* prompts answered correctly so far
Did(op) == last' = [op |-> op, pre |-> Snap, answered |-> AnsweredAfter(op)]

----------------------------------------------------------------------------
Init ==
    /\ dataset \in Datasets
    /\ countries \in buildPool(dataset)
    /\ levelIndex = 0
    /\ step = "country"
    /\ answer = <<>>
    /\ feedback = ""
    /\ attempts = 0
    /\ correctCount = 0
    /\ streak = 0
    /\ selectedOption = NoOption
    /\ geoQuestion \in GeoQuestionsFor(CurrentCountryOf(countries, 0))
    /\ timers = <<>>
    /\ last = [op |-> "init", pre |-> Null, answered |-> {}]

----------------------------------------------------------------------------
(* Handlers *)

\* handleCorrect without setStreak
handleCorrect_NoStreak(nextStep) ==
    /\ correctCount' = correctCount + 1
    /\ UNCHANGED streak
    /\ feedback' = IF nextStep = "country" THEN FeedbackLevelComplete
                   ELSE FeedbackOnPoint
    /\ IF nextStep # NoStep
       THEN step' = nextStep /\ answer' = <<>>
       ELSE UNCHANGED <<step, answer>>

handleCorrect(nextStep) ==
    /\ correctCount' = correctCount + 1
    /\ streak' = streak + 1
    /\ feedback' = IF nextStep = "country" THEN FeedbackLevelComplete
                   ELSE FeedbackOnPoint
    /\ IF nextStep # NoStep
       THEN step' = nextStep /\ answer' = <<>>
       ELSE UNCHANGED <<step, answer>>

\* the closure called when a timer fires; closureFinished is the value of
\* `finished` in the render that created the closure. The render that follows
\* setLevelIndex recomputes the memoised question for the new currentCountry.
handleAdvance(closureFinished) ==
    IF closureFinished
    THEN UNCHANGED <<levelIndex, step, answer, selectedOption, feedback, geoQuestion>>
    ELSE /\ levelIndex' = levelIndex + 1
         /\ step' = "country"
         /\ answer' = <<>>
         /\ selectedOption' = NoOption
         /\ feedback' = ""
         /\ geoQuestion' \in GeoQuestionsFor(CurrentCountryOf(countries, levelIndex + 1))

\* handleSubmit without setStreak(0) after a wrong country name
handleSubmit_KeepStreak ==
    IF currentCountry = Undefined
    THEN UNCHANGED <<levelIndex, step, answer, feedback, attempts, correctCount, streak>>
    ELSE LET cleaned == normalizeAnswer(answer) IN
         IF cleaned = <<>>
         THEN /\ feedback' = FeedbackType
              /\ UNCHANGED <<levelIndex, step, answer, attempts, correctCount, streak>>
         ELSE /\ attempts' = attempts + 1
              /\ UNCHANGED levelIndex
              /\ IF step = "country"
                 THEN IF normalizeAnswer(currentCountry.name) = cleaned
                      THEN handleCorrect("capital")
                      ELSE /\ feedback' = FeedbackNotQuite
                           /\ UNCHANGED <<streak, correctCount, step, answer>>
                 ELSE IF step = "capital"
                 THEN IF normalizeAnswer(currentCountry.capital) = cleaned
                      THEN handleCorrect("geo")
                      ELSE /\ feedback' = FeedbackClose
                           /\ streak' = 0
                           /\ UNCHANGED <<correctCount, step, answer>>
                 ELSE UNCHANGED <<feedback, streak, correctCount, step, answer>>

\* handleSubmit with setAttempts moved before the check of the cleaned text
handleSubmit_CountFirst ==
    IF currentCountry = Undefined
    THEN UNCHANGED <<levelIndex, step, answer, feedback, attempts, correctCount, streak>>
    ELSE LET cleaned == normalizeAnswer(answer) IN
         /\ attempts' = attempts + 1
         /\ UNCHANGED levelIndex
         /\ IF cleaned = <<>>
            THEN /\ feedback' = FeedbackType
                 /\ UNCHANGED <<step, answer, correctCount, streak>>
            ELSE IF step = "country"
                 THEN IF normalizeAnswer(currentCountry.name) = cleaned
                      THEN handleCorrect("capital")
                      ELSE /\ feedback' = FeedbackNotQuite
                           /\ streak' = 0
                           /\ UNCHANGED <<correctCount, step, answer>>
                 ELSE IF step = "capital"
                 THEN IF normalizeAnswer(currentCountry.capital) = cleaned
                      THEN handleCorrect("geo")
                      ELSE /\ feedback' = FeedbackClose
                           /\ streak' = 0
                           /\ UNCHANGED <<correctCount, step, answer>>
                 ELSE UNCHANGED <<feedback, streak, correctCount, step, answer>>

handleSubmit ==
    IF currentCountry = Undefined
    THEN UNCHANGED <<levelIndex, step, answer, feedback, attempts, correctCount, streak>>
    ELSE LET cleaned == normalizeAnswer(answer) IN
         IF cleaned = <<>>
         THEN /\ feedback' = FeedbackType
              /\ UNCHANGED <<levelIndex, step, answer, attempts, correctCount, streak>>
         ELSE /\ attempts' = attempts + 1
              /\ UNCHANGED levelIndex
              /\ IF step = "country"
                 THEN IF normalizeAnswer(currentCountry.name) = cleaned
                      THEN handleCorrect("capital")
                      ELSE /\ feedback' = FeedbackNotQuite
                           /\ streak' = 0
                           /\ UNCHANGED <<correctCount, step, answer>>
                 ELSE IF step = "capital"
                 THEN IF normalizeAnswer(currentCountry.capital) = cleaned
                      THEN handleCorrect("geo")
                      ELSE /\ feedback' = FeedbackClose
                           /\ streak' = 0
                           /\ UNCHANGED <<correctCount, step, answer>>
                 ELSE UNCHANGED <<feedback, streak, correctCount, step, answer>>

\* handleGeoChoice without the setTimeout
handleGeoChoice_NoTimer(option) ==
    IF geoQuestion = Null
    THEN UNCHANGED <<selectedOption, attempts, correctCount, streak, feedback,
                     step, answer, timers>>
    ELSE /\ selectedOption' = option
         /\ attempts' = attempts + 1
         /\ IF normalizeAnswer(option) = normalizeAnswer(geoQuestion.answer)
            THEN /\ handleCorrect("country")
                 /\ UNCHANGED timers
            ELSE /\ feedback' = FeedbackGeoMissed
                 /\ streak' = 0
                 /\ UNCHANGED <<correctCount, step, answer, timers>>

\* handleGeoChoice without setAttempts
handleGeoChoice_NoAttempt(option) ==
    IF geoQuestion = Null
    THEN UNCHANGED <<selectedOption, attempts, correctCount, streak, feedback,
                     step, answer, timers>>
    ELSE /\ selectedOption' = option
         /\ UNCHANGED attempts
         /\ IF normalizeAnswer(option) = normalizeAnswer(geoQuestion.answer)
            THEN /\ handleCorrect("country")
                 /\ timers' = Append(timers, [finished |-> finished])
            ELSE /\ feedback' = FeedbackGeoMissed
                 /\ streak' = 0
                 /\ UNCHANGED <<correctCount, step, answer, timers>>

handleGeoChoice(option) ==
    IF geoQuestion = Null
    THEN UNCHANGED <<selectedOption, attempts, correctCount, streak, feedback,
                     step, answer, timers>>
    ELSE /\ selectedOption' = option
         /\ attempts' = attempts + 1
         /\ IF normalizeAnswer(option) = normalizeAnswer(geoQuestion.answer)
            THEN /\ handleCorrect("country")
                 /\ timers' = Append(timers, [finished |-> finished])
            ELSE /\ feedback' = FeedbackGeoMissed
                 /\ streak' = 0
                 /\ UNCHANGED <<correctCount, step, answer, timers>>

----------------------------------------------------------------------------
(* What the rendered page lets happen *)

FormRendered == ~finished
InputRendered == FormRendered /\ step # "geo"
GeoButtonsRendered == FormRendered /\ step = "geo" /\ geoQuestion # Null
RestartRendered == finished

\* onChange of the text field (the history keeps no snapshot for a keystroke)
TypeAnswer(text) ==
    /\ InputRendered
    /\ answer' = text
    /\ last' = [op |-> "type", pre |-> Null, answered |-> last.answered]
    /\ UNCHANGED <<dataset, countries, levelIndex, step, feedback, attempts,
                   correctCount, streak, selectedOption, geoQuestion, timers>>

\* onSubmit of the form
SubmitText ==
    /\ InputRendered
    /\ attempts < MaxAttempts
    /\ handleSubmit
    /\ Did("submitText")
    /\ UNCHANGED <<dataset, countries, selectedOption, geoQuestion, timers>>

\* the option buttons with a question that is rebuilt on every render
SubmitChoice_Regenerate(option) ==
    /\ GeoButtonsRendered
    /\ \E i \in 1..Len(geoQuestion.options) : geoQuestion.options[i] = option
    /\ attempts < MaxAttempts
    /\ Len(timers) < MaxTimers
    /\ handleGeoChoice(option)
    /\ geoQuestion' \in GeoQuestionsFor(currentCountry)
    /\ Did("submitChoice")
    /\ UNCHANGED <<dataset, countries, levelIndex>>

\* onClick of one of the two option buttons
SubmitChoice(option) ==
    /\ GeoButtonsRendered
    /\ \E i \in 1..Len(geoQuestion.options) : geoQuestion.options[i] = option
    /\ attempts < MaxAttempts
    /\ Len(timers) < MaxTimers
    /\ handleGeoChoice(option)
    /\ Did("submitChoice")
    /\ UNCHANGED <<dataset, countries, levelIndex, geoQuestion>>

\* a pending setTimeout callback runs
Advance ==
    /\ timers # <<>>
    /\ handleAdvance(Head(timers).finished)
    /\ timers' = Tail(timers)
    /\ Did("advance")
    /\ UNCHANGED <<dataset, countries, attempts, correctCount, streak>>

\* the restart button without setAttempts(0)
Restart_KeepAttempts ==
    /\ RestartRendered
    /\ countries' \in buildPool(dataset)
    /\ levelIndex' = 0
    /\ step' = "country"
    /\ answer' = <<>>
    /\ correctCount' = 0
    /\ streak' = 0
    /\ feedback' = ""
    /\ selectedOption' = NoOption
    /\ geoQuestion' \in GeoQuestionsFor(CurrentCountryOf(countries', 0))
    /\ Did("restart")
    /\ UNCHANGED <<dataset, timers, attempts>>

\* onClick of "Restart with new order"
Restart ==
    /\ RestartRendered
    /\ countries' \in buildPool(dataset)
    /\ levelIndex' = 0
    /\ step' = "country"
    /\ answer' = <<>>
    /\ attempts' = 0
    /\ correctCount' = 0
    /\ streak' = 0
    /\ feedback' = ""
    /\ selectedOption' = NoOption
    /\ geoQuestion' \in GeoQuestionsFor(CurrentCountryOf(countries', 0))
    /\ Did("restart")
    /\ UNCHANGED <<dataset, timers>>

Next ==
    \/ \E text \in TypedAnswers : TypeAnswer(text)
    \/ SubmitText
    \/ \E option \in {YesNo[1], YesNo[2], LeftRight[1], LeftRight[2]} : SubmitChoice(option)
    \/ Advance
    \/ Restart

Spec == Init /\ [][Next]_vars

----------------------------------------------------------------------------------------------------------------------------------------
(* The page plus the handlers called directly while the Victory panel is   *)
(* shown (the form and its buttons are not rendered then): only the        *)
(* handlers' own early returns guard these calls.                          *)

CallSubmitText ==
    /\ finished
    /\ attempts < MaxAttempts
    /\ handleSubmit
    /\ Did("submitText")
    /\ UNCHANGED <<dataset, countries, selectedOption, geoQuestion, timers>>

CallSubmitChoice(option) ==
    /\ finished
    /\ attempts < MaxAttempts
    /\ Len(timers) < MaxTimers
    /\ handleGeoChoice(option)
    /\ Did("submitChoice")
    /\ UNCHANGED <<dataset, countries, levelIndex, geoQuestion>>

NextApi ==
    \/ \E text \in TypedAnswers : TypeAnswer(text)
    \/ SubmitText
    \/ \E option \in {YesNo[1], YesNo[2], LeftRight[1], LeftRight[2]} : SubmitChoice(option)
    \/ Advance
    \/ Restart
    \/ CallSubmitText
    \/ \E option \in {YesNo[1], YesNo[2], LeftRight[1], LeftRight[2]} : CallSubmitChoice(option)

SpecApi == Init /\ [][NextApi]_vars

\* the browser runs every pending timer callback
SpecLive == Spec /\ WF_vars(Advance)

----------------------------------------------------------------------------
(* The pool builder on its own: the page is mounted with a list of entries  *)
(* drawn from PoolDetails, entries with a repeated or missing ISO numeric   *)
(* code included.                                                          *)

MaxDetails == 3      \* longest list of entries explored

PoolDetails ==
    { Details[1],
      Details[2],
      [country |-> <<"a","f","g","h","a","n","i","s","t","a","n">>,
       capital |-> <<"k","a","b","u","l">>,
       continent |-> "as", iso |-> [numeric |-> <<"0","0","4">>],
       famous_for |-> "rugs", is_landlocked |-> TRUE, drive_direction |-> "right"],
      [country |-> <<"a","f","g","h","a","n","i","s","t","a","n">>,
       capital |-> <<"k","a","b","u","l">>,
       continent |-> "as", iso |-> [numeric |-> <<"4">>],
       famous_for |-> "rugs", is_landlocked |-> TRUE, drive_direction |-> "right"],
      [country |-> <<"n","o","w","h","e","r","e"," ","l","a","n","d">>,
       capital |-> <<"n","o","n","e">>,
       continent |-> "xx", iso |-> Undefined,
       famous_for |-> "", is_landlocked |-> FALSE, drive_direction |-> "right"] }

DetailLists == UNION { [1..n -> PoolDetails] : n \in 0..MaxDetails }

InitPool ==
    /\ last \in { [op |-> "details", details |-> d] : d \in DetailLists }
    /\ dataset = <<>>
    /\ countries = <<>>
    /\ levelIndex = 0
    /\ step = "country"
    /\ answer = <<>>
    /\ feedback = ""
    /\ attempts = 0
    /\ correctCount = 0
    /\ streak = 0
    /\ selectedOption = NoOption
    /\ geoQuestion = Null
    /\ timers = <<>>

\* useState<Country[]>(buildPool) and the first render
MountPool ==
    /\ last.op = "details"
    /\ dataset' = buildCountries(last.details)
    /\ countries' \in buildPool(dataset')
    /\ geoQuestion' \in GeoQuestionsFor(CurrentCountryOf(countries', 0))
    /\ last' = [op |-> "buildPool", details |-> last.details]
    /\ UNCHANGED <<levelIndex, step, answer, feedback, attempts, correctCount,
                   streak, selectedOption, timers>>

NextPool == MountPool

SpecPool == InitPool /\ [][NextPool]_vars

----------------------------------------------------------------------------
(* The answer check on its own: a text of at most MaxTextLen characters is  *)
(* in the text field at the capital step of Togo and is submitted once.     *)

MaxTextLen == 5      \* longest typed text explored

TextAlphabet == {"l", "L", "o", "m", "E_acute", " ", "-", "cyr_ya"}

Texts == UNION { [1..n -> TextAlphabet] : n \in 0..MaxTextLen }

InitText ==
    /\ dataset = SubSeq(Catalogue, 1, 1)
    /\ countries = dataset
    /\ levelIndex = 0
    /\ step = "capital"
    /\ answer \in Texts
    /\ feedback = FeedbackOnPoint
    /\ attempts = 1
    /\ correctCount = 1
    /\ streak = 1
    /\ selectedOption = NoOption
    /\ geoQuestion = CHOOSE q \in GeoQuestionsFor(countries[1]) : TRUE
    /\ timers = <<>>
    /\ last = [op |-> "type", pre |-> Null, answered |-> {<<0, "country">>}]

SubmitTyped ==
    /\ last.op = "type"
    /\ SubmitText

NextText == SubmitTyped

SpecText == InitText /\ [][NextText]_vars

----------------------------------------------------------------------------
(* The hint, lines 215-234 *)

\* String.prototype.includes
Includes(text, part) ==
    \E i \in 1..(Len(text) - Len(part) + 1) :
        SubSeq(text, i, i + Len(part) - 1) = part

\* the prompt of a question as text, lines 102 and 107
PromptText(prompt) ==
    IF prompt[1] = "landlocked"
    THEN <<"I","s"," ">> \o prompt[2] \o <<" ","l","a","n","d","l","o","c","k","e","d","?">>
    ELSE <<"W","h","i","c","h"," ","d","r","i","v","i","n","g"," ","s","i","d","e"," ","i","s"," ","u","s","e","d"," ","i","n"," ">>
            \o prompt[2] \o <<"?">>

\* String.prototype.charAt(0).toUpperCase()
FirstUpper(text) == IF text = <<>> THEN <<>> ELSE <<ToUpperChar(text[1])>>

DriveText(side) == IF side = "left" THEN <<"l","e","f","t">> ELSE <<"r","i","g","h","t">>

HintFor(country, st, question) ==
    IF country = Undefined THEN <<"L","o","a","d","i","n","g"," ","h","i","n","t",".",".",".">>
    ELSE IF st = "country"
    THEN <<"C","o","u","n","t","r","y"," ","s","t","a","r","t","s"," ","w","i","t","h"," ">> \o FirstUpper(country.name)
            \o <<" ","a","n","d"," ","s","i","t","s"," ","i","n"," ">> \o country.continent \o <<".">>
    ELSE IF st = "capital"
    THEN <<"C","a","p","i","t","a","l"," ","s","t","a","r","t","s"," ","w","i","t","h"," ">> \o FirstUpper(country.capital)
            \o <<" ","f","o","r"," ">> \o country.name \o <<".">>
    ELSE IF st = "geo" /\ question # Null
            /\ Includes(PromptText(question.prompt), <<"l","a","n","d","l","o","c","k","e","d">>)
    THEN (IF country.isLandlocked THEN <<"N","o"," ","c","o","a","s","t","l","i","n","e",".">> ELSE <<"T","o","u","c","h","e","s"," ","t","h","e"," ","s","e","a",".">>)
    ELSE IF st = "geo" /\ question # Null
            /\ Includes(PromptText(question.prompt), <<"d","r","i","v","i","n","g"," ","s","i","d","e">>)
    THEN <<"T","h","e","y"," ","d","r","i","v","e"," ","o","n"," ","t","h","e"," ">> \o DriveText(country.driveDirection) \o <<" ","s","i","d","e",".">>
    ELSE <<"S","t","a","y"," ","s","h","a","r","p",".">>

hintLine == HintFor(currentCountry, step, geoQuestion)

\* the hint on its own: one level of one country at any of its three steps,
\* with any question, and the "Show hint" button
HintCountries ==
    Catalogue \o buildCountries(<< [country |-> <<"m","o","n","a","c","o">>,
        capital |-> <<"m","o","n","a","c","o">>,
        continent |-> "eu", iso |-> [numeric |-> <<"4","9","2">>],
        famous_for |-> "casinos", is_landlocked |-> FALSE, drive_direction |-> "right"] >>)

InitHint ==
    /\ \E i \in 1..Len(HintCountries) : dataset = <<HintCountries[i]>>
    /\ countries = dataset
    /\ levelIndex = 0
    /\ step \in {"country", "capital", "geo"}
    /\ answer = <<>>
    /\ feedback = (IF step = "country" THEN "" ELSE FeedbackOnPoint)
    /\ attempts = (IF step = "country" THEN 0 ELSE IF step = "capital" THEN 1 ELSE 2)
    /\ correctCount = attempts
    /\ streak = attempts
    /\ selectedOption = NoOption
    /\ geoQuestion \in GeoQuestionsFor(countries[1])
    /\ timers = <<>>
    /\ last = [op |-> "render", showHint |-> FALSE]

\* onClick of "Show hint" / "Hide hint", lines 422-428
ToggleHint ==
    /\ last' = [op |-> "hint", showHint |-> ~last.showHint]
    /\ UNCHANGED <<dataset, countries, levelIndex, step, answer, feedback,
                   attempts, correctCount, streak, selectedOption, geoQuestion,
                   timers>>

NextHint == ToggleHint

SpecHint == InitHint /\ [][NextHint]_vars

----------------------------------------------------------------------------
(* The accuracy shown, line 304: Math.round((correctCount / attempts) * 100),
   computed in IEEE 754 binary64 with round-to-nearest-even.  A positive
   double is [mant, exp]: mant is its 53-bit significand as an integer, most
   significant bit first, and its value is mant * 2^exp. *)

MaxShownAttempts == 40   \* attempts on the scoreboard

Precision == 53

RECURSIVE NatToBits(_)
NatToBits(n) == IF n = 0 THEN <<>> ELSE Append(NatToBits(n \div 2), n % 2)

\* the number written by the first n bits
RECURSIVE BitsToNat(_, _)
BitsToNat(bits, n) ==
    IF n = 0 THEN 0 ELSE 2 * BitsToNat(bits, n - 1) + bits[n]

\* n written with exactly width bits
FixedBits(n, width) == [i \in 1..width |-> (n \div 2^(width - i)) % 2]

\* the arithmetic below works on Chunk bits at a time
Chunk == 12

\* bits * m + carry, exactly, from the least significant chunk up
RECURSIVE MulAdd(_, _, _)
MulAdd(bits, m, carry) ==
    IF Len(bits) <= Chunk THEN NatToBits(BitsToNat(bits, Len(bits)) * m + carry)
    ELSE LET low == SubSeq(bits, Len(bits) - Chunk + 1, Len(bits))
             t == BitsToNat(low, Chunk) * m + carry
         IN  MulAdd(SubSeq(bits, 1, Len(bits) - Chunk), m, t \div 2^Chunk)
                \o FixedBits(t % 2^Chunk, Chunk)

\* the exact value bits * 2^e (plus something below the last bit when
\* sticky), rounded to the nearest double, ties to even
RoundNearestEven(bits, e, sticky) ==
    LET keep == SubSeq(bits, 1, Precision)
        rest == SubSeq(bits, Precision + 1, Len(bits))
        half == rest # <<>> /\ rest[1] = 1
        more == sticky \/ \E i \in 2..Len(rest) : rest[i] = 1
        up == half /\ (more \/ keep[Precision] = 1)
        rounded == IF up THEN MulAdd(keep, 1, 1) ELSE keep
    IN  IF Len(rounded) > Precision
        THEN [mant |-> SubSeq(rounded, 1, Precision), exp |-> e + Len(rest) + 1]
        ELSE [mant |-> rounded, exp |-> e + Len(rest)]

\* long division of the remainder r by a, a chunk of quotient bits at a
\* time, until the quotient has more bits than a double keeps
RECURSIVE DivBits(_, _, _, _)
DivBits(r, a, acc, e) ==
    IF Len(acc) > Precision
    THEN RoundNearestEven(acc, e, r # 0)
    ELSE LET q == (r * 2^Chunk) \div a
         IN  DivBits((r * 2^Chunk) % a, a,
                     IF acc = <<>> THEN NatToBits(q) ELSE acc \o FixedBits(q, Chunk),
                     e - Chunk)

DoubleZero == [mant |-> <<>>, exp |-> 0]

\* c / a for two small non-negative integers, a # 0
Divide(c, a) ==
    IF c = 0 THEN DoubleZero ELSE DivBits(c % a, a, NatToBits(c \div a), 0)

\* x * m for a small positive integer m
Times(x, m) ==
    IF x = DoubleZero THEN DoubleZero
    ELSE RoundNearestEven(MulAdd(x.mant, m, 0), x.exp, FALSE)

\* Math.round of a double in [0, 2^30): the nearest integer, ties upwards
MathRound(x) ==
    IF x = DoubleZero THEN 0
    ELSE LET n == Len(x.mant) + x.exp     \* bits before the binary point
         IN  IF n < 0 THEN 0
             ELSE BitsToNat(x.mant, n)
                    + (IF n < Len(x.mant) THEN x.mant[n + 1] ELSE 0)

AccuracyOf(correct, tries) ==
    IF tries # 0 THEN MathRound(Times(Divide(correct, tries), 100)) ELSE 100

Accuracy == AccuracyOf(correctCount, attempts)

\* the scoreboard on its own: a pool of eight countries played without a
\* mistake up to some step of some level, then any number of wrong answers
AccuracyDetails ==
    Details \o
    << [country |-> <<"k","e","n","y","a">>,
        capital |-> <<"n","a","i","r","o","b","i">>,
        continent |-> "af", iso |-> [numeric |-> <<"4","0","4">>],
        famous_for |-> "safaris", is_landlocked |-> FALSE, drive_direction |-> "left"],
       [country |-> <<"j","a","p","a","n">>,
        capital |-> <<"t","o","k","y","o">>,
        continent |-> "as", iso |-> [numeric |-> <<"3","9","2">>],
        famous_for |-> "sushi", is_landlocked |-> FALSE, drive_direction |-> "left"],
       [country |-> <<"c","h","i","l","e">>,
        capital |-> <<"s","a","n","t","i","a","g","o">>,
        continent |-> "sa", iso |-> [numeric |-> <<"1","5","2">>],
        famous_for |-> "the atacama desert", is_landlocked |-> FALSE, drive_direction |-> "right"],
       [country |-> <<"c","h","a","d">>,
        capital |-> <<"n","d","j","a","m","e","n","a">>,
        continent |-> "af", iso |-> [numeric |-> <<"1","4","8">>],
        famous_for |-> "lake chad", is_landlocked |-> TRUE, drive_direction |-> "right"] >>

StepsDone(st) == IF st = "country" THEN 0 ELSE IF st = "capital" THEN 1 ELSE 2

InitAccuracy ==
    /\ dataset = buildCountries(AccuracyDetails)
    /\ countries = dataset
    /\ levelIndex \in 0..(Len(countries) - 1)
    /\ step \in {"country", "capital", "geo"}
    /\ answer = <<>>
    /\ correctCount = 3 * levelIndex + StepsDone(step)
    /\ attempts \in correctCount..MaxShownAttempts
    /\ streak = (IF attempts = correctCount THEN correctCount ELSE 0)
    /\ feedback = (IF attempts = correctCount
                   THEN (IF step = "country" THEN "" ELSE FeedbackOnPoint)
                   ELSE IF step = "country" THEN FeedbackNotQuite
                   ELSE IF step = "capital" THEN FeedbackClose
                   ELSE FeedbackGeoMissed)
    /\ selectedOption = NoOption
    /\ geoQuestion \in GeoQuestionsFor(countries[levelIndex + 1])
    /\ timers = <<>>
    /\ last = [op |-> "play"]

\* the scoreboard is rendered, lines 296-305
RenderAccuracy ==
    /\ last.op = "play"
    /\ last' = [op |-> "render", attempts |-> attempts, accuracy |-> Accuracy]
    /\ UNCHANGED <<dataset, countries, levelIndex, step, answer, feedback,
                   attempts, correctCount, streak, selectedOption, geoQuestion,
                   timers>>

NextAccuracy == RenderAccuracy

SpecAccuracy == InitAccuracy /\ [][NextAccuracy]_vars

----------------------------------------------------------------------------
(* The state the last operation ran in *)

pre == last.pre
PreCountry == CurrentCountryOf(pre.countries, pre.levelIndex)
PreFinished == FinishedOf(pre.countries, pre.levelIndex)

UserOps == {"submitText", "submitChoice"}

\* the text is empty or consists of white space only
Blank(text) == \A i \in 1..Len(text) : text[i] = " "

\* the text has a letter (with or without accent) or a digit of the Latin
\* alphabet somewhere
HasLatinAlnum(text) ==
    \E i \in 1..Len(text) :
        \/ \E j \in 1..Len(LowerLetters) : text[i] \in {LowerLetters[j], UpperLetters[j]}
        \/ text[i] \in Digits
        \/ text[i] \in {"e_acute", "E_acute"}

\* the last operation was a click on the correct option of the question
GeoCorrect ==
    /\ last.op = "submitChoice"
    /\ pre.geoQuestion # Null
    /\ normalizeAnswer(selectedOption) = normalizeAnswer(pre.geoQuestion.answer)

\* the last operation was a click on the wrong option of the question
GeoWrong ==
    /\ last.op = "submitChoice"
    /\ pre.geoQuestion # Null
    /\ normalizeAnswer(selectedOption) # normalizeAnswer(pre.geoQuestion.answer)

CountersUnchanged ==
    /\ attempts = pre.attempts
    /\ correctCount = pre.correctCount
    /\ streak = pre.streak

----------------------------------------------------------------------------
(* C1 *)

\* C1: while a deferred advance is pending (after a correct geography answer
\* and before the timer fires), no submitText or submitChoice changes step,
\* attempts, correctCount or streak.
C1_NoRaceWithInput ==
    (last.op \in UserOps /\ pre.timers # <<>>) =>
        /\ step = pre.step
        /\ CountersUnchanged

----------------------------------------------------------------------------
(* C2 *)

\* C2: after the correct submissions of country, capital and geography fact
\* of level k in a row, levelIndex eventually becomes k + 1 with step
\* "country", for every level k of the pool.
C2_LevelAdvances ==
    \A k \in 0..(MaxDataset - 1) :
        (GeoCorrect /\ streak >= 3 /\ levelIndex = k)
            ~> (levelIndex = k + 1 /\ step = "country")

\* the timer of a level answered with three correct submissions in a row fired
C2_Witness ==
    /\ last.op = "advance"
    /\ pre.feedback = FeedbackLevelComplete
    /\ pre.streak >= 3
    /\ pre.step = "country"
    /\ levelIndex = pre.levelIndex + 1
    /\ step = "country"

----------------------------------------------------------------------------
(* C3 *)

\* C3: a call of advance, deferred or not, does nothing once
\* levelIndex >= totalLevels; otherwise it adds exactly 1 to levelIndex, sets
\* step to "country", clears the input text, the selected option and the
\* feedback, and leaves attempts, correctCount and streak alone.
C3_AdvanceOnlyWhenNotFinished ==
    last.op = "advance" =>
        IF pre.levelIndex >= TotalLevelsOf(pre.countries)
        THEN levelIndex = pre.levelIndex
        ELSE /\ levelIndex = pre.levelIndex + 1
             /\ step = "country"
             /\ answer = <<>>
             /\ selectedOption = NoOption
             /\ feedback = ""
             /\ CountersUnchanged

----------------------------------------------------------------------------
(* C4 *)

\* C4: at step "country" a submitted text whose normalised form equals the
\* normalised country name adds 1 to correctCount and to streak, sets step to
\* "capital" and clears the input; at step "capital" the same comparison
\* with the capital name sets step to "geo".
C4_CorrectTextAdvancesStep ==
    (last.op = "submitText" /\ PreCountry # Undefined) =>
        /\ (pre.step = "country"
              /\ normalizeAnswer(pre.answer) = normalizeAnswer(PreCountry.name))
           => /\ correctCount = pre.correctCount + 1
              /\ streak = pre.streak + 1
              /\ step = "capital"
              /\ answer = <<>>
        /\ (pre.step = "capital"
              /\ normalizeAnswer(pre.answer) = normalizeAnswer(PreCountry.capital))
           => /\ correctCount = pre.correctCount + 1
              /\ streak = pre.streak + 1
              /\ step = "geo"
              /\ answer = <<>>

\* the capital was typed in upper case with its accent and accepted, right
\* after the country was accepted
C4_Witness ==
    /\ last.op = "submitText"
    /\ pre.step = "capital"
    /\ pre.answer = <<"L","O","M","E_acute">>
    /\ step = "geo"
    /\ streak >= 2

----------------------------------------------------------------------------
(* C5 *)

\* C5 as claimed: at step "country" a submitted text that is not blank and
\* does not match the country name leaves step and levelIndex alone, resets
\* streak to 0, adds 1 to attempts and leaves correctCount alone.
C5_WrongCountryAsClaimed ==
    (/\ last.op = "submitText"
     /\ PreCountry # Undefined
     /\ pre.step = "country"
     /\ ~Blank(pre.answer)
     /\ normalizeAnswer(pre.answer) # normalizeAnswer(PreCountry.name)) =>
        /\ step = "country"
        /\ levelIndex = pre.levelIndex
        /\ streak = 0
        /\ attempts = pre.attempts + 1
        /\ correctCount = pre.correctCount

\* C5 amended: at step "country" a submitted text that has a Latin letter or
\* digit and does not match the country name leaves step and levelIndex
\* alone, resets streak to 0, adds 1 to attempts and leaves correctCount alone.
C5_WrongCountry ==
    (/\ last.op = "submitText"
     /\ PreCountry # Undefined
     /\ pre.step = "country"
     /\ HasLatinAlnum(pre.answer)
     /\ normalizeAnswer(pre.answer) # normalizeAnswer(PreCountry.name)) =>
        /\ step = "country"
        /\ levelIndex = pre.levelIndex
        /\ streak = 0
        /\ attempts = pre.attempts + 1
        /\ correctCount = pre.correctCount

\* a wrong country name was submitted while a streak was running
C5_Witness ==
    /\ last.op = "submitText"
    /\ pre.step = "country"
    /\ pre.streak > 0
    /\ HasLatinAlnum(pre.answer)
    /\ streak = 0
    /\ step = "country"

----------------------------------------------------------------------------
(* C6 *)

\* C6: a submitted text that is empty or white space only is not counted:
\* nothing but the feedback text changes, and with a current country the
\* feedback asks for an answer.
C6_BlankRejected ==
    (last.op = "submitText" /\ Blank(pre.answer)) =>
        /\ CountersUnchanged
        /\ step = pre.step
        /\ levelIndex = pre.levelIndex
        /\ answer = pre.answer
        /\ selectedOption = pre.selectedOption
        /\ countries = pre.countries
        /\ geoQuestion = pre.geoQuestion
        /\ timers = pre.timers
        /\ (PreCountry # Undefined => feedback = FeedbackType)

\* white space was submitted after at least one counted attempt
C6_Witness ==
    /\ last.op = "submitText"
    /\ pre.answer = <<" ">>
    /\ pre.attempts > 0
    /\ pre.feedback # FeedbackType
    /\ feedback = FeedbackType

----------------------------------------------------------------------------
(* C7 *)

\* C7 as claimed: every submitted text that is not blank is an attempt: at
\* step "country" or "capital" it adds exactly 1 to attempts.
C7_NonBlankCountedAsClaimed ==
    (/\ last.op = "submitText"
     /\ PreCountry # Undefined
     /\ pre.step \in {"country", "capital"}
     /\ ~Blank(pre.answer)) =>
        attempts = pre.attempts + 1

\* C7 amended: at step "country" or "capital" a submitted text adds exactly
\* 1 to attempts if it has a Latin letter or digit, and is rejected without
\* being counted otherwise (blank, punctuation only, non-Latin text only).
C7_CountedIffAlnum ==
    (/\ last.op = "submitText"
     /\ PreCountry # Undefined
     /\ pre.step \in {"country", "capital"}) =>
        IF HasLatinAlnum(pre.answer)
        THEN attempts = pre.attempts + 1
        ELSE /\ CountersUnchanged
             /\ step = pre.step
             /\ feedback = FeedbackType

\* a punctuation-only text was rejected at the capital step
C7_Witness ==
    /\ last.op = "submitText"
    /\ pre.step = "capital"
    /\ pre.answer = <<"?">>
    /\ attempts = pre.attempts
    /\ attempts > 0

----------------------------------------------------------------------------
(* C8 *)

\* C8: at step "geo" a click on the wrong option resets streak to 0, keeps
\* step "geo" and levelIndex, and keeps the question (prompt, answer and the
\* order of the two options); the question changes only when a deferred
\* advance fires or the game restarts.
C8_WrongChoiceKeepsQuestion ==
    /\ (GeoWrong /\ pre.step = "geo") =>
          /\ streak = 0
          /\ step = "geo"
          /\ levelIndex = pre.levelIndex
          /\ geoQuestion = pre.geoQuestion
    /\ (last.op \in UserOps) => geoQuestion = pre.geoQuestion

\* the wrong option was clicked again, after an earlier click at this level
C8_Witness ==
    /\ GeoWrong
    /\ pre.step = "geo"
    /\ pre.selectedOption # NoOption
    /\ pre.feedback = FeedbackGeoMissed
    /\ geoQuestion = pre.geoQuestion

----------------------------------------------------------------------------
(* C9 *)

\* the statements about restart shared by C9 as claimed and as amended
RestartZeroes ==
    last.op = "restart" =>
        /\ PreFinished
        /\ Len(countries) = Len(pre.countries)
        /\ levelIndex = 0
        /\ attempts = 0
        /\ correctCount = 0
        /\ streak = 0
        /\ step = "country"

\* C9 as claimed: the Victory panel is shown exactly when
\* levelIndex >= totalLevels, for every pool size, and restart from there
\* gives a pool of the same length with the session zeroed.
C9_FinishedAsClaimed ==
    /\ RestartRendered <=> levelIndex >= totalLevels
    /\ RestartZeroes

\* C9 amended: the Victory panel is shown exactly when the pool is not empty
\* and levelIndex >= the length of the pool (with an empty pool it is never
\* shown), and restart from there gives a pool of the same length with
\* levelIndex, attempts, correctCount and streak 0 and step "country".
C9_FinishedAndRestart ==
    /\ RestartRendered <=> (Len(countries) > 0 /\ levelIndex >= Len(countries))
    /\ ~FormRendered <=> (Len(countries) > 0 /\ levelIndex >= Len(countries))
    /\ RestartZeroes

\* the game was restarted after a play-through with counted attempts
C9_Witness ==
    /\ last.op = "restart"
    /\ pre.attempts > 0
    /\ pre.levelIndex >= Len(pre.countries)
    /\ attempts = 0
    /\ levelIndex = 0

----------------------------------------------------------------------------
(* C10 *)

\* C10: while the Victory panel is shown, submitText and submitChoice leave
\* levelIndex, step, attempts, correctCount and streak alone.
C10_InertWhenFinished ==
    (last.op \in UserOps /\ PreFinished) =>
        /\ levelIndex = pre.levelIndex
        /\ step = pre.step
        /\ CountersUnchanged

\* an option was submitted while the Victory panel was shown
C10_Witness ==
    /\ last.op = "submitChoice"
    /\ PreFinished
    /\ finished
    /\ pre.attempts > 0

----------------------------------------------------------------------------
(* C11 *)

\* C11: in every reachable state correctCount <= attempts: every submission
\* that adds to correctCount also adds to attempts.
C11_CorrectAtMostAttempts ==
    /\ correctCount <= attempts
    /\ (last.op \in UserOps /\ correctCount > pre.correctCount) =>
          attempts = pre.attempts + 1

\* a correct option was counted after a play with wrong answers
C11_Witness ==
    /\ GeoCorrect
    /\ correctCount = pre.correctCount + 1
    /\ correctCount < attempts

----------------------------------------------------------------------------
(* C12 *)

\* the operations that run between two restarts and leave a snapshot
PlayOps == {"submitText", "submitChoice", "advance"}

\* C12: between restarts levelIndex never decreases, step changes only along
\* country -> capital -> geo -> country, and the change from "geo" to
\* "country" comes with the next level.
C12_StepCycle ==
    last.op \in PlayOps =>
        /\ levelIndex >= pre.levelIndex
        /\ step # pre.step =>
              <<pre.step, step>> \in { <<"country", "capital">>,
                                       <<"capital", "geo">>,
                                       <<"geo", "country">> }
        /\ (pre.step = "geo" /\ step = "country") =>
              levelIndex = pre.levelIndex + 1

----------------------------------------------------------------------------
(* C18 *)

\* C18: in every reachable state levelIndex <= totalLevels.
C18_LevelWithinPool == levelIndex <= totalLevels

----------------------------------------------------------------------------
(* C20 *)

\* C20: whenever the controller is Finished, correctCount = 3 * totalLevels.
C20_ThreePerLevel == finished => correctCount = 3 * totalLevels

----------------------------------------------------------------------------
(* C17 *)

\* C17: every question generated for the current country has exactly two
\* distinct choices, the correct answer among them, and the answer agrees
\* with the record: Yes/No with isLandlocked for the landlocked prompt,
\* Left/Right with driveDirection for the driving-side prompt.
C17_QuestionWellFormed ==
    geoQuestion # Null =>
        /\ currentCountry # Undefined
        /\ geoQuestion.prompt[2] = currentCountry.name
        /\ Len(geoQuestion.options) = 2
        /\ geoQuestion.options[1] # geoQuestion.options[2]
        /\ geoQuestion.answer \in {geoQuestion.options[1], geoQuestion.options[2]}
        /\ geoQuestion.prompt[1] \in {"landlocked", "driving side"}
        /\ geoQuestion.prompt[1] = "landlocked" =>
              /\ {geoQuestion.options[1], geoQuestion.options[2]}
                    = { <<"Y","e","s">>, <<"N","o">> }
              /\ (geoQuestion.answer = <<"Y","e","s">>) <=> currentCountry.isLandlocked
        /\ geoQuestion.prompt[1] = "driving side" =>
              /\ {geoQuestion.options[1], geoQuestion.options[2]}
                    = { <<"L","e","f","t">>, <<"R","i","g","h","t">> }
              /\ (geoQuestion.answer = <<"L","e","f","t">>)
                    <=> (currentCountry.driveDirection = "left")

\* a deferred advance generated a driving-side question with the options
\* in swapped order for a country that drives on the left
C17_Witness ==
    /\ last.op = "advance"
    /\ geoQuestion # Null
    /\ geoQuestion.prompt[1] = "driving side"
    /\ geoQuestion.options = << <<"R","i","g","h","t">>, <<"L","e","f","t">> >>
    /\ geoQuestion.answer = <<"L","e","f","t">>

----------------------------------------------------------------------------
(* C19 *)

\* C19: no level is skipped: a deferred advance moves levelIndex by exactly
\* 1, and every level below levelIndex had its country, capital and
\* geography prompts answered correctly, while it was the current level,
\* since the last restart.
C19_NoLevelSkipped ==
    /\ last.op = "advance" => levelIndex \in {pre.levelIndex, pre.levelIndex + 1}
    /\ \A j \in 0..(levelIndex - 1) :
          \A s \in {"country", "capital", "geo"} : <<j, s>> \in last.answered

----------------------------------------------------------------------------
(* C13 *)

\* C13: every freshly built pool has length min(100, number of records
\* loaded) and no two of its records have the same country id, whatever the
\* list of entries (repeated ISO numeric codes and entries without a code
\* included).
C13_PoolDistinctIds ==
    last.op = "buildPool" =>
        /\ Len(countries) = Min(100, Len(dataset))
        /\ \A i, j \in 1..Len(countries) :
              i # j => countries[i].id # countries[j].id

----------------------------------------------------------------------------
(* C14 *)

\* the letter or digit a character stands for once case and accent are
\* ignored; <<>> for a character that is neither
BaseLetter(c) ==
    IF \E i \in 1..Len(LowerLetters) : c \in {LowerLetters[i], UpperLetters[i]}
    THEN <<LowerLetters[CHOOSE i \in 1..Len(LowerLetters) :
                            c \in {LowerLetters[i], UpperLetters[i]}]>>
    ELSE IF c \in Digits THEN <<c>>
    ELSE IF c \in {"e_acute", "E_acute"} THEN <<"e">>
    ELSE <<>>

\* the letters and digits of a text, case, accents, spaces and punctuation
\* ignored
RECURSIVE LettersOf(_)
LettersOf(text) ==
    IF text = <<>> THEN <<>> ELSE BaseLetter(Head(text)) \o LettersOf(Tail(text))

LowerAlnum == { LowerLetters[i] : i \in 1..Len(LowerLetters) } \cup Digits

\* the submitted capital was accepted
CapitalAccepted ==
    /\ step = "geo"
    /\ correctCount = pre.correctCount + 1

\* C14: the normalised form of every submitted text has only lowercase ASCII
\* letters and digits, normalising it again changes nothing, and the text is
\* accepted exactly when its normalised form is the normalised form of the
\* expected answer, that is when both have the same letters and digits,
\* whatever their case, accents, spaces and punctuation.
C14_NormalizedAcceptance ==
    (last.op = "submitText" /\ pre.step = "capital" /\ PreCountry # Undefined) =>
        LET n == normalizeAnswer(pre.answer) IN
        /\ \A i \in 1..Len(n) : n[i] \in LowerAlnum
        /\ normalizeAnswer(n) = n
        /\ n = LettersOf(pre.answer)
        /\ CapitalAccepted <=> n = normalizeAnswer(PreCountry.capital)
        /\ CapitalAccepted <=> LettersOf(pre.answer) = LettersOf(PreCountry.capital)

\* an answer in other case, with a separator and an accented capital letter
\* ("L-om" followed by E acute) was accepted for the capital of Togo
C14_Witness ==
    /\ last.op = "submitText"
    /\ pre.answer = <<"L", "-", "o", "m", "E_acute">>
    /\ CapitalAccepted

----------------------------------------------------------------------------
(* C15 *)

\* C15: the hint shown for the current step never contains the answer of
\* that step: not the country name at the country step, not the capital name
\* at the capital step (also when it is the country's name), not the correct
\* choice at the geography step.
C15_HintHidesAnswer ==
    (last.op = "hint" /\ last.showHint /\ currentCountry # Undefined) =>
        /\ step = "country" => ~Includes(hintLine, currentCountry.name)
        /\ step = "capital" => ~Includes(hintLine, currentCountry.capital)
        /\ (step = "geo" /\ geoQuestion # Null) =>
              ~Includes(hintLine, geoQuestion.answer)

----------------------------------------------------------------------------
(* C16 *)

\* round(n / d) for integers n >= 0 and d > 0, a half rounding upwards
RoundedRatio(n, d) == (2 * n + d) \div (2 * d)

\* C16: the accuracy shown is round(100 * correctCount / attempts) when
\* attempts > 0 and 100 when attempts = 0, and it is always an integer
\* between 0 and 100.
C16_AccuracyIsRoundedRatio ==
    /\ Accuracy = (IF attempts > 0
                   THEN RoundedRatio(100 * correctCount, attempts) ELSE 100)
    /\ Accuracy \in 0..100

====
